---- MODULE Spec2Model ----
(***************************************************************************)
(* tmuxdev: a CLI that wraps tmux to start, resume, list and kill the      *)
(* session that runs a project's development server.                       *)
(*                                                                         *)
(* Two variants of the program are in the repository:                      *)
(*   "v1"  src/src/tmuxdev.ts   (no arguments -> interactive menu)         *)
(*   "v2"  src/unnamed/part_001 (no arguments -> start, menu|m -> menu)    *)
(* One invocation of main() is modelled, one step per awaited external     *)
(* call or prompt; the tmux registry is shared with other processes, which *)
(* the Env actions stand for.                                              *)
(*                                                                         *)
(* Strings that the program builds or takes apart (paths, branch names,    *)
(* session names) are sequences of one-character strings.                  *)
(***************************************************************************)
EXTENDS Integers, Sequences, FiniteSets, TLC

VARIABLES
    variant,      \* which of the two source variants runs
    cwd,          \* the working directory (what `pwd` prints, untrimmed)
    gitBranch,    \* outcome of `git branch --show-current`
    command,      \* argv._[0]
    helpFlag,     \* argv.help || argv.h
    toolPresent,  \* tmux is installed and can be run
    registry,     \* the live tmux sessions (owned by tmux)
    pc,           \* position of main()
    mode,         \* the branch of main() taken by the dispatch
    sessionName,  \* const sessionName
    exists,       \* const exists
    allSessions,  \* const allSessions
    choices,      \* const choices (the values, in order)
    action,       \* let action
    target,       \* argument of the pending attachSession / killSession
    trace,        \* external calls, prompts and messages of this invocation
    exitCode,     \* -1 while running, else the process exit status
    envSteps,     \* how many times another process changed the registry
    queriedAt,    \* the value of envSteps when has-session and list-sessions were
                  \* called and when createSession returned
    peer          \* a second invocation, in start mode, for the same directory

vars == <<variant, cwd, gitBranch, command, helpFlag, toolPresent, registry,
          pc, mode, sessionName, exists, allSessions, choices, action,
          target, trace, exitCode, envSteps, queriedAt, peer>>

----------------------------------------------------------------------------
(* Bounds *)

MaxEnvSteps == 2

----------------------------------------------------------------------------
(* Strings *)

TMUXDEV == <<"t", "m", "u", "x", "d", "e", "v">>
NL == "\n"
Whitespace == {" ", NL}

Max(S) == CHOOSE x \in S : \A y \in S : y <= x
Min(S) == CHOOSE x \in S : \A y \in S : x <= y

\* String.prototype.trim
Trim(s) ==
    LET keep == {i \in 1..Len(s) : s[i] \notin Whitespace}
    IN  IF keep = {} THEN <<>> ELSE SubSeq(s, Min(keep), Max(keep))

\* path.split('/').pop()
LastSegment(path) ==
    LET slashes == {i \in 1..Len(path) : path[i] = "/"}
        from    == IF slashes = {} THEN 1 ELSE Max(slashes) + 1
    IN  SubSeq(path, from, Len(path))

----------------------------------------------------------------------------
(* Environment Resolver *)

GitFailed == [ok |-> FALSE, stdout |-> <<>>]
GitOk(out) == [ok |-> TRUE, stdout |-> out]

getFolderName(pwdStdout) ==
    LET seg == LastSegment(Trim(pwdStdout))
    IN  IF seg = <<>> THEN TMUXDEV ELSE seg

getBranchName(git) ==
    IF git.ok THEN Trim(git.stdout) ELSE <<>>

getSessionName(pwdStdout, git) ==
    LET folderName == getFolderName(pwdStdout)
        branchName == getBranchName(git)
    IN  IF branchName # <<>>
        THEN folderName \o <<"-">> \o branchName
        ELSE folderName

----------------------------------------------------------------------------
(* Inputs *)

NoCommand == "(none)"
StartCommands == {"start", "s"}
AttachCommands == {"attach", "a"}
MenuCommands == {"menu", "m"}
HelpCommands == {"help", "h"}
Commands == {NoCommand, "foo"} \cup StartCommands \cup AttachCommands
              \cup MenuCommands \cup HelpCommands

PwdOutputs ==
    { <<"/", NL>>,
      <<"/", "a", NL>>,
      <<"/", "a", " ", NL>>,
      <<"/", "p", "/", "a", "-", "b", NL>> }

GitOutcomes == { GitFailed, GitOk(<<>>), GitOk(<<"b", NL>>) }

\* a session of some other project
OtherSession == <<"o">>

\* the order in which tmux lists sessions
NameOrder ==
    << <<"a">>, <<"a", "-", "b">>, <<"a", "-", "b", "-", "b">>,
       OtherSession, TMUXDEV, TMUXDEV \o <<"-", "b">> >>

SeqToSet(s) == {s[i] : i \in 1..Len(s)}

----------------------------------------------------------------------------
(* The trace of one invocation *)

Call(op, id, res) == [k |-> "call", op |-> op, id |-> id, res |-> res]
Prompt(op, id, res) == [k |-> "prompt", op |-> op, id |-> id, res |-> res]
Echo(op) == [k |-> "echo", op |-> op, id |-> <<>>, res |-> "stdout"]
EchoId(op, id, res) == [k |-> "echo", op |-> op, id |-> id, res |-> res]
ConsoleError == [k |-> "error", op |-> "console.error", id |-> <<>>, res |-> "stderr"]

Running == exitCode = -1

----------------------------------------------------------------------------
(* tmux, as the adapter functions see it *)

\* exit status of `tmux has-session -t id`
HasSessionOk(id) == toolPresent /\ id \in registry

\* stdout of `tmux list-sessions -F "#{session_name}"`: one name per line
RECURSIVE JoinLines(_)
JoinLines(names) ==
    IF names = <<>> THEN <<>>
    ELSE Head(names) \o <<NL>> \o JoinLines(Tail(names))

ListSessionsOk == toolPresent /\ registry # {}
ListSessionsStdout ==
    JoinLines(SelectSeq(NameOrder, LAMBDA n : n \in registry))

SplitLines_NoSplit(s) == <<s>>

\* String.prototype.split('\n')
RECURSIVE SplitLines(_)
SplitLines(s) ==
    LET nls == {i \in 1..Len(s) : s[i] = NL}
    IN  IF nls = {} THEN <<s>>
        ELSE <<SubSeq(s, 1, Min(nls) - 1)>>
               \o SplitLines(SubSeq(s, Min(nls) + 1, Len(s)))

\* `tmux new-session -d -s id` fails on a duplicate name or a missing tool
NewSessionOk(id) == toolPresent /\ id \notin registry
\* `tmux send-keys -t id` and `tmux kill-session -t id` need the session
SendKeysOk(id) == toolPresent /\ id \in registry
KillSessionOk(id) == toolPresent /\ id \in registry
\* `tmux attach-session -t id` takes the terminal only if the session is there
AttachOk(id) == toolPresent /\ id \in registry

----------------------------------------------------------------------------
(* Session Registry Adapter: the two queries *)

sessionExists_CatchTrue(id) == TRUE

sessionExists(id) == IF HasSessionOk(id) THEN TRUE ELSE FALSE

getAllSessions_SkipsHeader ==
    IF ListSessionsOk
    THEN Tail(SelectSeq(SplitLines(Trim(ListSessionsStdout)), LAMBDA x : x # <<>>))
    ELSE <<>>

getAllSessions ==
    IF ListSessionsOk
    THEN SelectSeq(SplitLines(Trim(ListSessionsStdout)), LAMBDA x : x # <<>>)
    ELSE <<>>

----------------------------------------------------------------------------
(* Leaving main() *)

\* process.exit(code), or main() returning: the process ends with `code`
Exit(code) ==
    /\ pc' = "done"
    /\ exitCode' = code

\* main().catch(console.error): a rejection of main() is printed by
\* console.error and the process then ends with status 0
MainCatchExit_Rethrown == 0 + 1
MainCatchExit == 0
MainCatch(tr) == Append(tr, ConsoleError)

\* the catch blocks around the prompts: echo('\nExiting...'); process.exit(0)
PromptCaught(tr) == Append(tr, Echo("Exiting"))

\* which prompts sit in a try/catch
CatchesCancel(v, prompt) ==
    \/ v = "v2"
    \/ v = "v1" /\ prompt = "action"

\* a prompt that was interrupted: the rejection is either caught on the spot
\* or travels up to main().catch
Cancelled(prompt, id) ==
    /\ trace' = (IF CatchesCancel(variant, prompt)
                 THEN PromptCaught(Append(trace, Prompt(prompt, id, "cancel")))
                 ELSE MainCatch(Append(trace, Prompt(prompt, id, "cancel"))))
    /\ Exit(IF CatchesCancel(variant, prompt) THEN 0 ELSE MainCatchExit)

----------------------------------------------------------------------------
(* Init *)

\* the second invocation is not running
PeerOff == [pc |-> "off", exists |-> FALSE, trace |-> <<>>]

Init ==
    /\ variant \in {"v1", "v2"}
    /\ cwd \in PwdOutputs
    /\ gitBranch \in GitOutcomes
    /\ command \in Commands
    /\ helpFlag \in BOOLEAN
    /\ toolPresent \in BOOLEAN
    /\ registry \in SUBSET {getSessionName(cwd, gitBranch), OtherSession}
    /\ (~toolPresent => registry = {})
    /\ pc = "resolve"
    /\ mode = "none"
    /\ sessionName = <<>>
    /\ exists = FALSE
    /\ allSessions = <<>>
    /\ choices = <<>>
    /\ action = "none"
    /\ target = <<>>
    /\ trace = <<>>
    /\ exitCode = -1
    /\ envSteps = 0
    /\ queriedAt = [exists |-> -1, list |-> -1, create |-> -1]
    /\ peer = PeerOff

----------------------------------------------------------------------------
(* main(): entry *)

\* const sessionName = await getSessionName()
Resolve ==
    /\ pc = "resolve"
    /\ sessionName' = getSessionName(cwd, gitBranch)
    /\ pc' = "hasSession"
    /\ UNCHANGED <<peer, queriedAt, variant, cwd, gitBranch, command, helpFlag,
                   toolPresent,
                   registry, mode, exists, allSessions, choices, action,
                   target, trace, exitCode, envSteps>>

\* const exists = await sessionExists(sessionName)
SessionExists ==
    /\ pc = "hasSession"
    /\ exists' = sessionExists(sessionName)
    /\ trace' = Append(trace, Call("has-session", sessionName,
                                   IF HasSessionOk(sessionName) THEN "ok" ELSE "fail"))
    /\ pc' = "dispatch"
    /\ queriedAt' = [queriedAt EXCEPT !.exists = envSteps]
    /\ UNCHANGED <<peer, variant, cwd, gitBranch, command, helpFlag,
                   toolPresent,
                   registry, mode, sessionName, allSessions, choices, action,
                   target, exitCode, envSteps>>

----------------------------------------------------------------------------
(* main(): the dispatch on argv *)

IsStart(v, c) ==
    \/ c \in StartCommands
    \/ v = "v2" /\ c = NoCommand

IsAttach(v, c) == c \in AttachCommands

IsHelp(v, c, h) ==
    /\ ~IsStart(v, c)
    /\ ~IsAttach(v, c)
    /\ IF v = "v2"
       THEN c \notin MenuCommands /\ (c \in HelpCommands \/ h)
       ELSE c \in HelpCommands \/ h

IsMenu_Fallthrough(v, c, h) ==
    ~IsStart(v, c) /\ ~IsAttach(v, c) /\ ~IsHelp(v, c, h)

IsMenu(v, c, h) ==
    /\ ~IsStart(v, c)
    /\ ~IsAttach(v, c)
    /\ IF v = "v2" THEN c \in MenuCommands ELSE ~IsHelp(v, c, h)

IsUnknown(v, c, h) ==
    /\ v = "v2"
    /\ ~IsStart(v, c) /\ ~IsAttach(v, c) /\ ~IsMenu(v, c, h) /\ ~IsHelp(v, c, h)

existsAtUse_Requeried == sessionExists(sessionName)

\* the `exists` that the branches test is the constant of line 84
existsAtUse == exists

StartCommand ==
    /\ pc = "dispatch"
    /\ IsStart(variant, command)
    /\ mode' = "start"
    /\ target' = sessionName
    /\ IF existsAtUse
       THEN /\ trace' = Append(trace, Echo("AlreadyExists"))
            /\ pc' = "attach"
       ELSE /\ trace' = trace
            /\ pc' = "create"
    /\ UNCHANGED <<peer, queriedAt, variant, cwd, gitBranch, command, helpFlag,
                   toolPresent,
                   registry, sessionName, exists, allSessions, choices,
                   action, exitCode, envSteps>>

AttachCommand ==
    /\ pc = "dispatch"
    /\ IsAttach(variant, command)
    /\ mode' = "attach"
    /\ target' = sessionName
    /\ IF existsAtUse
       THEN /\ trace' = trace
            /\ pc' = "attach"
       ELSE /\ trace' = Append(trace, Echo("DoesNotExist"))
            /\ pc' = "promptCreate"
    /\ UNCHANGED <<peer, queriedAt, variant, cwd, gitBranch, command, helpFlag,
                   toolPresent,
                   registry, sessionName, exists, allSessions, choices,
                   action, exitCode, envSteps>>

\* the usage text; its Session Info lines show sessionName and exists
HelpCommand ==
    /\ pc = "dispatch"
    /\ IsHelp(variant, command, helpFlag)
    /\ mode' = "help"
    /\ trace' = Append(Append(trace, Echo("Usage")),
                       EchoId("SessionInfo", sessionName,
                              IF exists THEN "Yes" ELSE "No"))
    /\ Exit(0)
    /\ UNCHANGED <<peer, queriedAt, variant, cwd, gitBranch, command, helpFlag,
                   toolPresent,
                   registry, sessionName, exists, allSessions, choices,
                   action, target, envSteps>>

UnknownCommand ==
    /\ pc = "dispatch"
    /\ IsUnknown(variant, command, helpFlag)
    /\ mode' = "unknown"
    /\ trace' = Append(trace, Echo("UnknownCommand"))
    /\ Exit(1)
    /\ UNCHANGED <<peer, queriedAt, variant, cwd, gitBranch, command, helpFlag,
                   toolPresent,
                   registry, sessionName, exists, allSessions, choices,
                   action, target, envSteps>>

MenuCommand ==
    /\ pc = "dispatch"
    /\ IsMenu(variant, command, helpFlag)
    /\ mode' = "menu"
    /\ pc' = "listSessions"
    /\ UNCHANGED <<peer, queriedAt, variant, cwd, gitBranch, command, helpFlag,
                   toolPresent,
                   registry, sessionName, exists, allSessions, choices,
                   action, target, trace, exitCode, envSteps>>

----------------------------------------------------------------------------
(* createSession, attachSession, killSession *)

createSessionThrows_Swallowed(ok) == FALSE

\* createSession awaits its tmux calls outside any try: a failing call rejects
createSessionThrows(ok) == ~ok

attachSessionThrows_Uncaught(ok) == ~ok

\* attachSession wraps the tmux call in try { } catch { }: nothing gets out
attachSessionThrows(ok) == FALSE

\* killSession awaits its tmux call outside any try
killSessionThrows(ok) == ~ok

AfterCreate_AlwaysAsks(m) == "promptAttachNow"
AfterCreate_Again(m) == "create"

\* where main() goes on after createSession returned
AfterCreate(m) == IF m = "menu" THEN "promptAttachNow" ELSE "attach"

\* `tmux new-session -d -s id` (v1: with 'pnpm dev' as the session's command)
CreateSession_NewSession ==
    /\ pc = "create"
    /\ LET ok == NewSessionOk(target)
           op == IF variant = "v1" THEN "new-session-cmd" ELSE "new-session"
           tr == Append(trace, Call(op, target, IF ok THEN "ok" ELSE "fail"))
       IN  /\ registry' = (IF ok THEN registry \cup {target} ELSE registry)
           /\ IF createSessionThrows(ok)
              THEN /\ trace' = MainCatch(tr)
                   /\ Exit(MainCatchExit)
              ELSE /\ trace' = tr
                   /\ pc' = (IF variant = "v1" THEN AfterCreate(mode) ELSE "sendKeys")
                   /\ exitCode' = exitCode
    /\ queriedAt' = (IF ~createSessionThrows(NewSessionOk(target)) /\ variant = "v1"
                     THEN [queriedAt EXCEPT !.create = envSteps]
                     ELSE queriedAt)
    /\ UNCHANGED <<peer, variant, cwd, gitBranch, command, helpFlag,
                   toolPresent,
                   mode, sessionName, exists, allSessions, choices, action,
                   target, envSteps>>

\* v2 only: `tmux send-keys -t id 'npm run dev' Enter`
CreateSession_SendKeys ==
    /\ pc = "sendKeys"
    /\ LET ok == SendKeysOk(target)
           tr == Append(trace, Call("send-keys", target, IF ok THEN "ok" ELSE "fail"))
       IN  IF createSessionThrows(ok)
           THEN /\ trace' = MainCatch(tr)
                /\ Exit(MainCatchExit)
           ELSE /\ trace' = tr
                /\ pc' = AfterCreate(mode)
                /\ exitCode' = exitCode
    /\ queriedAt' = (IF ~createSessionThrows(SendKeysOk(target))
                     THEN [queriedAt EXCEPT !.create = envSteps]
                     ELSE queriedAt)
    /\ UNCHANGED <<peer, variant, cwd, gitBranch, command, helpFlag,
                   toolPresent,
                   registry, mode, sessionName, exists, allSessions, choices,
                   action, target, envSteps>>

\* `tmux attach-session -t id` is started; with the session there it takes
\* the terminal and main() waits, otherwise it fails at once
AttachSession ==
    /\ pc = "attach"
    /\ LET ok == AttachOk(target)
           tr == Append(trace, Call("attach-session", target,
                                    IF ok THEN "attached" ELSE "fail"))
       IN  IF ok
           THEN /\ trace' = tr
                /\ pc' = "attached"
                /\ exitCode' = exitCode
           ELSE IF attachSessionThrows(ok)
                THEN /\ trace' = MainCatch(tr)
                     /\ Exit(MainCatchExit)
                ELSE /\ trace' = tr
                     /\ Exit(0)
    /\ UNCHANGED <<peer, queriedAt, variant, cwd, gitBranch, command, helpFlag,
                   toolPresent,
                   registry, mode, sessionName, exists, allSessions, choices,
                   action, target, envSteps>>

\* the attach wait ends: the user detached, the session ended, or the client
\* lost the server (a non-zero exit of tmux attach-session)
AttachEnd ==
    /\ pc = "attached"
    /\ \E how \in {"detached", "ended", "lost"} :
         /\ how = "detached" => target \in registry
         /\ how = "ended" => target \notin registry
         /\ LET tr == Append(trace, [k |-> "return", op |-> "attach-session",
                                     id |-> target, res |-> how])
            IN  IF attachSessionThrows(how # "lost")
                THEN /\ trace' = MainCatch(tr)
                     /\ Exit(MainCatchExit)
                ELSE /\ trace' = tr
                     /\ Exit(0)
    /\ UNCHANGED <<peer, queriedAt, variant, cwd, gitBranch, command, helpFlag,
                   toolPresent,
                   registry, mode, sessionName, exists, allSessions, choices,
                   action, target, envSteps>>

\* `tmux kill-session -t id`, then echo `Killed session`
KillSession ==
    /\ pc = "kill"
    /\ LET ok == KillSessionOk(target)
           tr == Append(trace, Call("kill-session", target, IF ok THEN "ok" ELSE "fail"))
       IN  /\ registry' = (IF ok THEN registry \ {target} ELSE registry)
           /\ IF killSessionThrows(ok)
              THEN /\ trace' = MainCatch(tr)
                   /\ Exit(MainCatchExit)
              ELSE /\ trace' = Append(tr, EchoId("Killed", target, "stdout"))
                   /\ Exit(0)
    /\ UNCHANGED <<peer, queriedAt, variant, cwd, gitBranch, command, helpFlag,
                   toolPresent,
                   mode, sessionName, exists, allSessions, choices, action,
                   target, envSteps>>

----------------------------------------------------------------------------
(* attach-only mode: the create-it prompt *)

CreateConfirmed_Always(answer) == TRUE

\* if (create)
CreateConfirmed(answer) == answer = "yes"

PromptCreate ==
    /\ pc = "promptCreate"
    /\ \E answer \in {"yes", "no", "cancel"} :
         IF answer = "cancel"
         THEN Cancelled("create", sessionName)
         ELSE /\ trace' = Append(trace, Prompt("create", sessionName, answer))
              /\ IF CreateConfirmed(answer)
                 THEN pc' = "create" /\ exitCode' = exitCode
                 ELSE Exit(0)
    /\ UNCHANGED <<peer, queriedAt, variant, cwd, gitBranch, command, helpFlag,
                   toolPresent,
                   registry, mode, sessionName, exists, allSessions, choices,
                   action, target, envSteps>>

----------------------------------------------------------------------------
(* menu mode *)

BuildChoices_Unconditional(ex, all) ==
    (IF ex THEN <<"attach-current">> ELSE <<"create-current">>)
    \o <<"select-existing", "kill-session", "exit">>

\* the values of const choices, in the order they are pushed
BuildChoices(ex, all) ==
    (IF ex THEN <<"attach-current">> ELSE <<"create-current">>)
    \o (IF Len(all) > 0 THEN <<"select-existing", "kill-session">> ELSE <<>>)
    \o <<"exit">>

\* const allSessions = await getAllSessions(), and the building of choices
GetAllSessions ==
    /\ pc = "listSessions"
    /\ allSessions' = getAllSessions
    /\ choices' = BuildChoices(existsAtUse, allSessions')
    /\ trace' = Append(trace, Call("list-sessions", <<>>,
                                   IF ListSessionsOk THEN "ok" ELSE "fail"))
    /\ pc' = "promptAction"
    /\ queriedAt' = [queriedAt EXCEPT !.list = envSteps]
    /\ UNCHANGED <<peer, variant, cwd, gitBranch, command, helpFlag,
                   toolPresent,
                   registry, mode, sessionName, exists, action, target,
                   exitCode, envSteps>>

\* the case of the switch that an action value selects
ActionBranch(a) ==
    CASE a = "attach-current"  -> "attach"
      [] a = "create-current"  -> "create"
      [] a = "select-existing" -> "promptSelect"
      [] a = "kill-session"    -> "promptKill"
      [] a = "exit"            -> "done"

\* the list prompt 'What would you like to do?' and the switch on its answer
PromptAction ==
    /\ pc = "promptAction"
    /\ \/ /\ Cancelled("action", <<>>)
          /\ UNCHANGED <<action, target>>
       \/ \E a \in SeqToSet(choices) :
            /\ action' = a
            /\ target' = (IF a \in {"attach-current", "create-current"}
                          THEN sessionName ELSE target)
            /\ IF a = "exit"
               THEN /\ trace' = Append(Append(trace, Prompt("action", <<>>, a)),
                                       Echo("Goodbye"))
                    /\ Exit(0)
               ELSE /\ trace' = Append(trace, Prompt("action", <<>>, a))
                    /\ pc' = ActionBranch(a)
                    /\ exitCode' = exitCode
    /\ UNCHANGED <<peer, queriedAt, variant, cwd, gitBranch, command, helpFlag,
                   toolPresent,
                   registry, mode, sessionName, exists, allSessions, choices,
                   envSteps>>

AttachNowConfirmed_Always(answer) == TRUE

\* if (attachNow)
AttachNowConfirmed(answer) == answer = "yes"

\* create-current: 'Would you like to attach to the session now?'
PromptAttachNow ==
    /\ pc = "promptAttachNow"
    /\ \E answer \in {"yes", "no", "cancel"} :
         IF answer = "cancel"
         THEN Cancelled("attachNow", sessionName)
         ELSE IF AttachNowConfirmed(answer)
              THEN /\ trace' = Append(trace, Prompt("attachNow", sessionName, answer))
                   /\ pc' = "attach"
                   /\ exitCode' = exitCode
              ELSE /\ trace' = Append(Append(trace, Prompt("attachNow", sessionName, answer)),
                                      Echo("AttachLater"))
                   /\ Exit(0)
    /\ UNCHANGED <<peer, queriedAt, variant, cwd, gitBranch, command, helpFlag,
                   toolPresent,
                   registry, mode, sessionName, exists, allSessions, choices,
                   action, target, envSteps>>

SelectTarget_Current(selectedSession) == sessionName

\* await attachSession(selectedSession)
SelectTarget(selectedSession) == selectedSession

\* select-existing: 'Select a session to attach to:'
PromptSelect ==
    /\ pc = "promptSelect"
    /\ \/ /\ Cancelled("select", <<>>)
          /\ UNCHANGED target
       \/ \E s \in SeqToSet(allSessions) :
            /\ target' = SelectTarget(s)
            /\ trace' = Append(trace, Prompt("select", s, "picked"))
            /\ pc' = "attach"
            /\ exitCode' = exitCode
    /\ UNCHANGED <<peer, queriedAt, variant, cwd, gitBranch, command, helpFlag,
                   toolPresent,
                   registry, mode, sessionName, exists, allSessions, choices,
                   action, envSteps>>

\* kill-session: 'Select a session to kill:'
PromptKillSelect ==
    /\ pc = "promptKill"
    /\ \/ /\ Cancelled("killSelect", <<>>)
          /\ UNCHANGED target
       \/ \E s \in SeqToSet(allSessions) :
            /\ target' = s
            /\ trace' = Append(trace, Prompt("killSelect", s, "picked"))
            /\ pc' = "confirmKill"
            /\ exitCode' = exitCode
    /\ UNCHANGED <<peer, queriedAt, variant, cwd, gitBranch, command, helpFlag,
                   toolPresent,
                   registry, mode, sessionName, exists, allSessions, choices,
                   action, envSteps>>

KillConfirmed_Always(answer) == TRUE

\* if (confirmKill)
KillConfirmed(answer) == answer = "yes"

\* kill-session: 'Are you sure you want to kill session ...?'
PromptConfirmKill ==
    /\ pc = "confirmKill"
    /\ \E answer \in {"yes", "no", "cancel"} :
         IF answer = "cancel"
         THEN Cancelled("confirmKill", target)
         ELSE /\ trace' = Append(trace, Prompt("confirmKill", target, answer))
              /\ IF KillConfirmed(answer)
                 THEN pc' = "kill" /\ exitCode' = exitCode
                 ELSE Exit(0)
    /\ UNCHANGED <<peer, queriedAt, variant, cwd, gitBranch, command, helpFlag,
                   toolPresent,
                   registry, mode, sessionName, exists, allSessions, choices,
                   action, target, envSteps>>

----------------------------------------------------------------------------
(* Other processes using the same tmux server *)

EnvNames == {getSessionName(cwd, gitBranch), OtherSession}

EnvCreate ==
    /\ Running
    /\ toolPresent
    /\ envSteps < MaxEnvSteps
    /\ \E n \in EnvNames \ registry : registry' = registry \cup {n}
    /\ envSteps' = envSteps + 1
    /\ UNCHANGED <<peer, queriedAt, variant, cwd, gitBranch, command, helpFlag,
                   toolPresent,
                   pc, mode, sessionName, exists, allSessions, choices,
                   action, target, trace, exitCode>>

\* tmux stops being usable (uninstalled, or upgraded under a running server):
\* the sessions live on, every tmux command fails from now on
EnvToolLost ==
    /\ Running
    /\ toolPresent
    /\ envSteps < MaxEnvSteps
    /\ toolPresent' = FALSE
    /\ envSteps' = envSteps + 1
    /\ UNCHANGED <<peer, queriedAt, variant, cwd, gitBranch, command, helpFlag,
                   registry, pc, mode, sessionName, exists, allSessions,
                   choices, action, target, trace, exitCode>>

EnvKill ==
    /\ Running
    /\ toolPresent
    /\ envSteps < MaxEnvSteps
    /\ \E n \in registry : registry' = registry \ {n}
    /\ envSteps' = envSteps + 1
    /\ UNCHANGED <<peer, queriedAt, variant, cwd, gitBranch, command, helpFlag,
                   toolPresent,
                   pc, mode, sessionName, exists, allSessions, choices,
                   action, target, trace, exitCode>>

----------------------------------------------------------------------------

Next ==
    \/ Resolve
    \/ SessionExists
    \/ StartCommand
    \/ AttachCommand
    \/ HelpCommand
    \/ UnknownCommand
    \/ MenuCommand
    \/ CreateSession_NewSession
    \/ CreateSession_SendKeys
    \/ AttachSession
    \/ AttachEnd
    \/ KillSession
    \/ PromptCreate
    \/ GetAllSessions
    \/ PromptAction
    \/ PromptAttachNow
    \/ PromptSelect
    \/ PromptKillSelect
    \/ PromptConfirmKill
    \/ EnvCreate
    \/ EnvKill
    \/ EnvToolLost

Spec == Init /\ [][Next]_vars

\* the steps of the invocation itself
ProgramStep ==
    \/ Resolve
    \/ SessionExists
    \/ StartCommand
    \/ AttachCommand
    \/ HelpCommand
    \/ UnknownCommand
    \/ MenuCommand
    \/ CreateSession_NewSession
    \/ CreateSession_SendKeys
    \/ AttachSession
    \/ AttachEnd
    \/ KillSession
    \/ PromptCreate
    \/ GetAllSessions
    \/ PromptAction
    \/ PromptAttachNow
    \/ PromptSelect
    \/ PromptKillSelect
    \/ PromptConfirmKill

\* every awaited external call returns, every prompt is answered or
\* interrupted, every attach wait ends
FairSpec == Spec /\ WF_vars(ProgramStep)

TypeOK ==
    /\ exitCode \in {-1, 0, 1}
    /\ (pc = "done") = (exitCode # -1)

----------------------------------------------------------------------------
(* Two invocations at once: a second main() in start mode, started in the    *)
(* same directory on the same branch, sharing nothing but the tmux registry *)

PeerMainVars == <<variant, cwd, gitBranch, command, helpFlag, toolPresent, pc,
                  mode, sessionName, exists, allSessions, choices, action,
                  target, trace, exitCode, envSteps, queriedAt>>

PeerId == getSessionName(cwd, gitBranch)

\* const exists = await sessionExists(sessionName), and the start branch
PeerSessionExists ==
    /\ peer.pc = "hasSession"
    /\ LET ex == sessionExists(PeerId)
       IN  peer' = [pc     |-> IF ex THEN "attach" ELSE "create",
                    exists |-> ex,
                    trace  |-> Append(peer.trace,
                                      Call("has-session", PeerId,
                                           IF HasSessionOk(PeerId) THEN "ok" ELSE "fail"))]
    /\ UNCHANGED <<PeerMainVars, registry>>

PeerCreate_NewSession ==
    /\ peer.pc = "create"
    /\ LET ok == NewSessionOk(PeerId)
           op == IF variant = "v1" THEN "new-session-cmd" ELSE "new-session"
           tr == Append(peer.trace, Call(op, PeerId, IF ok THEN "ok" ELSE "fail"))
       IN  /\ registry' = (IF ok THEN registry \cup {PeerId} ELSE registry)
           /\ peer' = IF createSessionThrows(ok)
                      THEN [peer EXCEPT !.pc = "done", !.trace = MainCatch(tr)]
                      ELSE [peer EXCEPT !.pc = (IF variant = "v1" THEN "attach"
                                                ELSE "sendKeys"),
                                        !.trace = tr]
    /\ UNCHANGED PeerMainVars

PeerCreate_SendKeys ==
    /\ peer.pc = "sendKeys"
    /\ LET ok == SendKeysOk(PeerId)
           tr == Append(peer.trace, Call("send-keys", PeerId, IF ok THEN "ok" ELSE "fail"))
       IN  peer' = IF createSessionThrows(ok)
                   THEN [peer EXCEPT !.pc = "done", !.trace = MainCatch(tr)]
                   ELSE [peer EXCEPT !.pc = "attach", !.trace = tr]
    /\ UNCHANGED <<PeerMainVars, registry>>

PeerAttachSession ==
    /\ peer.pc = "attach"
    /\ LET ok == AttachOk(PeerId)
           tr == Append(peer.trace, Call("attach-session", PeerId,
                                         IF ok THEN "attached" ELSE "fail"))
       IN  peer' = IF ok
                   THEN [peer EXCEPT !.pc = "attached", !.trace = tr]
                   ELSE IF attachSessionThrows(ok)
                        THEN [peer EXCEPT !.pc = "done", !.trace = MainCatch(tr)]
                        ELSE [peer EXCEPT !.pc = "done", !.trace = tr]
    /\ UNCHANGED <<PeerMainVars, registry>>

PeerAttachEnd ==
    /\ peer.pc = "attached"
    /\ peer' = [peer EXCEPT !.pc = "done"]
    /\ UNCHANGED <<PeerMainVars, registry>>

\* both invocations are started while no session of the directory exists
InitRace ==
    /\ variant \in {"v1", "v2"}
    /\ cwd \in PwdOutputs
    /\ gitBranch \in GitOutcomes
    /\ command \in Commands
    /\ IsStart(variant, command)
    /\ helpFlag \in BOOLEAN
    /\ toolPresent \in BOOLEAN
    /\ registry \in SUBSET {OtherSession}
    /\ (~toolPresent => registry = {})
    /\ pc = "resolve"
    /\ mode = "none"
    /\ sessionName = <<>>
    /\ exists = FALSE
    /\ allSessions = <<>>
    /\ choices = <<>>
    /\ action = "none"
    /\ target = <<>>
    /\ trace = <<>>
    /\ exitCode = -1
    /\ envSteps = 0
    /\ queriedAt = [exists |-> -1, list |-> -1, create |-> -1]
    /\ peer = [PeerOff EXCEPT !.pc = "hasSession"]

NextRace ==
    \/ Resolve
    \/ SessionExists
    \/ StartCommand
    \/ CreateSession_NewSession
    \/ CreateSession_SendKeys
    \/ AttachSession
    \/ AttachEnd
    \/ PeerSessionExists
    \/ PeerCreate_NewSession
    \/ PeerCreate_SendKeys
    \/ PeerAttachSession
    \/ PeerAttachEnd

SpecRace == InitRace /\ [][NextRace]_vars

----------------------------------------------------------------------------
(* Reading the trace *)

NewOps == {"new-session", "new-session-cmd"}
CreateOps == NewOps \cup {"send-keys"}
QueryOps == {"has-session", "list-sessions"}

CallIdx(ops) == {i \in DOMAIN trace : trace[i].k = "call" /\ trace[i].op \in ops}
AllCallIdx == {i \in DOMAIN trace : trace[i].k = "call"}
PromptIdx == {i \in DOMAIN trace : trace[i].k = "prompt"}
ErrorIdx == {i \in DOMAIN trace : trace[i] = ConsoleError}

\* the tmux calls that createSession makes in the running variant
CreateCallsOf(v) == IF v = "v1" THEN {"new-session-cmd"} ELSE {"new-session", "send-keys"}

\* createSession(id) was called / returned normally
CreateIssued(id) ==
    \E i \in CallIdx(NewOps) : trace[i].id = id
CreateSucceeded(id) ==
    \A op \in CreateCallsOf(variant) :
        \E i \in CallIdx({op}) : trace[i].id = id /\ trace[i].res = "ok"
CreateFailedIdx == {i \in CallIdx(CreateOps) : trace[i].res = "fail"}

Done == pc = "done"
KnownCommands == StartCommands \cup AttachCommands \cup MenuCommands \cup HelpCommands

----------------------------------------------------------------------------
(* C1 *)

\* what a finished start-mode run has done: with exists true one attach of
\* the resolved identifier and no create; with exists false one create and,
\* exactly when it succeeded, one attach after it; never a prompt, a kill or
\* a list-sessions
StartModeRun ==
    /\ \A i \in AllCallIdx : trace[i].op # "has-session" => trace[i].id = sessionName
    /\ PromptIdx = {}
    /\ CallIdx({"kill-session", "list-sessions"}) = {}
    /\ Cardinality(CallIdx({"attach-session"})) <= 1
    /\ IF exists
       THEN /\ CallIdx(CreateOps) = {}
            /\ Cardinality(CallIdx({"attach-session"})) = 1
       ELSE /\ Cardinality(CallIdx(NewOps)) = 1
            /\ CreateSucceeded(sessionName) <=> CallIdx({"attach-session"}) # {}
            /\ \A i \in CallIdx(CreateOps), j \in CallIdx({"attach-session"}) : i < j

----------------------------------------------------------------------------
(* C2 *)

HelpRequested == command \in HelpCommands \/ helpFlag

\* C2 as stated: a help invocation (help, h, or the help flag with any or no
\* command) issues no create, attach or kill, prints the usage text with the
\* resolved identifier and its existence state, and exits 0.
C2_HelpIsInert ==
    HelpRequested =>
        /\ CallIdx(CreateOps \cup {"attach-session", "kill-session"}) = {}
        /\ Done =>
             /\ exitCode = 0
             /\ \E i \in DOMAIN trace :
                    trace[i] = EchoId("SessionInfo", sessionName,
                                      IF exists THEN "Yes" ELSE "No")

----------------------------------------------------------------------------
(* C3 *)

UnrecognizedInvocation == command \notin KnownCommands \cup {NoCommand} /\ ~helpFlag

----------------------------------------------------------------------------
(* C4 *)

KillIdx == CallIdx({"kill-session"})
AnsweredIdx(prompt, answers) ==
    {i \in PromptIdx : trace[i].op \in prompt /\ trace[i].res \in answers}

\* C4: a kill is issued only right after the user picked that session and
\* then affirmed the confirmation; a run of the kill-session action in which
\* the confirmation was declined or a prompt was cancelled has issued no kill
\* and, no other process having touched the registry, the picked session is
\* still live; after a successful kill the session is gone.
C4_KillNeedsConfirmation ==
    /\ \A i \in KillIdx :
          /\ i > 2
          /\ trace[i - 1] = Prompt("confirmKill", trace[i].id, "yes")
          /\ trace[i - 2] = Prompt("killSelect", trace[i].id, "picked")
          /\ trace[i].res = "ok" => (Done /\ trace[i].id \notin registry)
    /\ (action = "kill-session" /\ AnsweredIdx({"confirmKill"}, {"yes"}) = {})
          => /\ KillIdx = {}
             /\ \A i \in AnsweredIdx({"killSelect"}, {"picked"}) :
                   envSteps = 0 => trace[i].id \in registry
    /\ (pc = "kill") => AnsweredIdx({"confirmKill"}, {"yes"}) # {}

C4_Witness ==
    /\ Done
    /\ \E i \in KillIdx : trace[i].res = "ok" /\ trace[i].id \notin registry

----------------------------------------------------------------------------
(* C5 *)

\* C5: a finished attach-only run (attach, a) with exists true has attached
\* to the identifier without any prompt; with exists false it has shown the
\* create-it prompt, and unless the answer was yes it has issued no create,
\* attach or kill, so that without other processes the session still does
\* not exist; on yes it has issued create and, when that succeeded, attach
\* after it.
C5_AttachOnly ==
    (Done /\ command \in AttachCommands) =>
        /\ CallIdx({"kill-session", "list-sessions"}) = {}
        /\ \A i \in AllCallIdx : trace[i].id = sessionName
        /\ IF exists
           THEN /\ PromptIdx = {}
                /\ CallIdx(CreateOps) = {}
                /\ Cardinality(CallIdx({"attach-session"})) = 1
           ELSE /\ Cardinality(PromptIdx) = 1
                /\ \A i \in PromptIdx :
                      /\ trace[i].op = "create"
                      /\ \A j \in AllCallIdx : trace[j].op # "has-session" => i < j
                      /\ IF trace[i].res = "yes"
                         THEN /\ Cardinality(CallIdx(NewOps)) = 1
                              /\ CreateSucceeded(sessionName)
                                    <=> Cardinality(CallIdx({"attach-session"})) = 1
                              /\ \A c \in CallIdx(CreateOps),
                                    a \in CallIdx({"attach-session"}) : c < a
                         ELSE /\ CallIdx(CreateOps \cup {"attach-session"}) = {}
                              /\ envSteps = 0 => sessionName \notin registry

C5_Witness ==
    /\ Done /\ command \in AttachCommands /\ ~exists
    /\ AnsweredIdx({"create"}, {"no"}) # {}
    /\ sessionName \notin registry

----------------------------------------------------------------------------
(* C6 *)

CancelIdx == AnsweredIdx({"action", "create", "attachNow", "select",
                          "killSelect", "confirmKill"}, {"cancel"})

\* C6 as stated: an interrupted prompt ends the invocation with exit code 0,
\* no call follows it, and it is reported by the informational message,
\* never through the error handler.
C6_CancelIsInformational ==
    \A i \in CancelIdx :
        /\ Done /\ exitCode = 0
        /\ \A j \in AllCallIdx : j < i
        /\ i < Len(trace) /\ trace[i + 1] = Echo("Exiting")
        /\ ErrorIdx = {}

----------------------------------------------------------------------------
(* C7 *)

KillFailedIdx == {i \in KillIdx : trace[i].res = "fail"}

\* C7: once a call of createSession has failed, the run issues no attach and
\* shows no attach-now prompt; a failed create or kill is reported through
\* the error handler and the process ends with status 0.
C7_MutationFailure ==
    /\ \A i \in CreateFailedIdx :
          /\ \A j \in CallIdx({"attach-session"}) \cup AnsweredIdx({"attachNow"}, {"yes", "no", "cancel"}) : j < i
          /\ i = Len(trace) - 1 /\ trace[i + 1] = ConsoleError
          /\ Done /\ exitCode = 0
    /\ \A i \in KillFailedIdx :
          /\ i = Len(trace) - 1 /\ trace[i + 1] = ConsoleError
          /\ Done /\ exitCode = 0

C7_Witness ==
    /\ Done /\ mode = "menu" /\ action = "create-current"
    /\ CreateFailedIdx # {}

----------------------------------------------------------------------------
(* C8 *)

\* C8: a run ends with status 0 or 1, and with 1 exactly when it took the
\* unknown-command branch; runs with a failed create, kill or attach, a
\* declined or a cancelled prompt all end with 0.
C8_OnlyUnknownExitsNonZero ==
    Done =>
        /\ exitCode \in {0, 1}
        /\ exitCode # 0 <=> trace[Len(trace)] = Echo("UnknownCommand")
        /\ exitCode # 0 => (UnrecognizedInvocation /\ variant = "v2")

C8_Witness ==
    /\ Done /\ exitCode = 0
    /\ KillFailedIdx # {}

----------------------------------------------------------------------------
(* C9 *)

AttachIdx == CallIdx({"attach-session"})
AttachReturnIdx == {i \in DOMAIN trace : trace[i].k = "return"}

\* C9: however attach ends (detach, session ended, lost server, or failing
\* at once because the session is gone), nothing is reported through the
\* error handler, no tmux call follows the attach, and the process ends with
\* status 0.
C9_AttachNeverFails ==
    \A i \in AttachIdx :
        /\ \A j \in AllCallIdx : j <= i
        /\ \A j \in ErrorIdx : j < i
        /\ Done => exitCode = 0
        /\ trace[i].res = "fail" => (Done /\ i = Len(trace))
        /\ \A r \in AttachReturnIdx : r = i + 1 /\ r = Len(trace) /\ Done

C9_Witness ==
    /\ Done /\ exitCode = 0 /\ exists /\ toolPresent
    /\ \E i \in AttachIdx : trace[i].id = sessionName /\ trace[i].res = "fail"

----------------------------------------------------------------------------
(* C10 *)

Offered == SeqToSet(choices)
MenuBuilt == mode = "menu" /\ pc # "listSessions"

\* C10: once the menu is built, attach-current is offered iff exists,
\* create-current iff not exists, select-existing and kill-session iff the
\* list-sessions result is non-empty, exit always, nothing else and nothing
\* twice; the action answered and the switch case run belong to the offer.
C10_OfferedChoices ==
    MenuBuilt =>
        /\ "attach-current" \in Offered <=> exists
        /\ "create-current" \in Offered <=> ~exists
        /\ "select-existing" \in Offered <=> allSessions # <<>>
        /\ "kill-session" \in Offered <=> allSessions # <<>>
        /\ "exit" \in Offered
        /\ Offered \subseteq {"attach-current", "create-current",
                              "select-existing", "kill-session", "exit"}
        /\ Len(choices) = Cardinality(Offered)
        /\ action # "none" => action \in Offered
        /\ \A i \in AnsweredIdx({"action"}, Offered \cup {"none"}) : trace[i].res = action
        /\ AnsweredIdx({"attachNow"}, {"yes", "no", "cancel"}) # {} => action = "create-current"
        /\ pc \in {"promptSelect"} => action = "select-existing"
        /\ pc \in {"promptKill", "confirmKill", "kill"} => action = "kill-session"
        /\ pc \in {"create", "sendKeys", "promptAttachNow"} => action = "create-current"
        /\ pc \in {"attach", "attached"} =>
               action \in {"attach-current", "create-current", "select-existing"}

C10_Witness ==
    /\ MenuBuilt /\ exists /\ allSessions # <<>>
    /\ action = "kill-session" /\ pc = "confirmKill"

----------------------------------------------------------------------------
(* C11 *)

HasSessionIdx == CallIdx({"has-session"})
MutatingIdx == CallIdx(CreateOps \cup {"kill-session"})

\* the first event of the trace after the has-session call that is a call
\* or a prompt
FirstAfterQuery ==
    LET later == {i \in (AllCallIdx \cup PromptIdx) : i > 1}
    IN  IF later = {} THEN 0 ELSE Min(later)

\* C11: has-session is issued once, as the first event of the run, hence
\* before every prompt and every mutating call, and never again; `exists` is
\* its result, and that result, not the registry of the moment, decides what
\* is done next: in start and attach-only mode an attach if it was true, a
\* create or the create-it prompt if it was false, and in menu mode the
\* offer of attach-current or create-current.
C11_ExistsQueriedOnce ==
    /\ Cardinality(HasSessionIdx) <= 1
    /\ pc \notin {"resolve", "hasSession"} =>
          /\ HasSessionIdx = {1}
          /\ trace[1].id = sessionName
          /\ exists <=> trace[1].res = "ok"
    /\ (mode \in {"start", "attach"} /\ FirstAfterQuery # 0) =>
          LET e == trace[FirstAfterQuery]
          IN  IF trace[1].res = "ok"
              THEN e.k = "call" /\ e.op = "attach-session"
              ELSE \/ mode = "start" /\ e.k = "call" /\ e.op \in NewOps
                   \/ mode = "attach" /\ e.k = "prompt" /\ e.op = "create"
    /\ (mode = "menu" /\ pc # "listSessions") =>
          /\ choices[1] = (IF trace[1].res = "ok" THEN "attach-current"
                           ELSE "create-current")
          /\ action = "attach-current" => trace[1].res = "ok"
          /\ action = "create-current" => trace[1].res = "fail"

\* the registry changed after the query and the run still acted on the
\* stale result: a create of a session that is there by now
C11_Witness ==
    /\ mode = "menu" /\ action = "create-current"
    /\ ~exists
    /\ Cardinality(HasSessionIdx) = 1
    /\ \E i \in CallIdx(NewOps) : trace[i].id = sessionName /\ trace[i].res = "fail"
    /\ sessionName \in registry /\ toolPresent

----------------------------------------------------------------------------
(* C12 *)

AttachNowIdx == AnsweredIdx({"attachNow"}, {"yes", "no", "cancel"})

\* C12: a finished create-current run whose create succeeded has asked
\* attach-now once, after the create, and has attached to the identifier
\* exactly when the answer was yes; whatever the answer, no kill was issued
\* and, no other process having touched the registry, the session is live.
C12_CreateCurrent ==
    (Done /\ mode = "menu" /\ action = "create-current"
          /\ CreateSucceeded(sessionName)) =>
        /\ Cardinality(AttachNowIdx) = 1
        /\ \A p \in AttachNowIdx :
              /\ \A c \in CallIdx(CreateOps) : c < p
              /\ trace[p].res = "yes"
                    <=> \E a \in AttachIdx : a = p + 1 /\ trace[a].id = sessionName
              /\ trace[p].res # "yes" => AttachIdx = {}
        /\ KillIdx = {}
        /\ envSteps = 0 => sessionName \in registry

C12_Witness ==
    /\ Done /\ mode = "menu" /\ action = "create-current"
    /\ CreateSucceeded(sessionName)
    /\ AnsweredIdx({"attachNow"}, {"cancel"}) # {}
    /\ envSteps = 0 /\ sessionName \in registry

----------------------------------------------------------------------------
(* C13 *)

\* C13: in a select-existing run every attach is to the session picked at
\* the select prompt just before it, that session is one of allSessions, and
\* no create and no kill is issued.
C13_SelectExisting ==
    (mode = "menu" /\ action = "select-existing") =>
        /\ CallIdx(CreateOps \cup {"kill-session"}) = {}
        /\ Cardinality(AttachIdx) <= 1
        /\ \A a \in AttachIdx :
              /\ trace[a - 1] = Prompt("select", trace[a].id, "picked")
              /\ trace[a].id \in SeqToSet(allSessions)
        /\ pc \in {"attach", "attached"} =>
              /\ target \in SeqToSet(allSessions)
              /\ trace[Len(trace) - (IF pc = "attach" THEN 0 ELSE 1)]
                    = Prompt("select", target, "picked")

C13_Witness ==
    /\ mode = "menu" /\ action = "select-existing"
    /\ \E a \in AttachIdx : trace[a].id # sessionName /\ trace[a].res = "attached"

----------------------------------------------------------------------------
(* C14 *)

\* C14: a failed has-session gives exists = FALSE and a failed list-sessions
\* gives the empty allSessions; neither is reported through the error
\* handler nor ends the run: main() goes on to the dispatch, respectively to
\* the action prompt.
C14_QueriesNeverFail ==
    /\ \A i \in HasSessionIdx :
          /\ trace[i].res = "fail" => ~exists
          /\ i < Len(trace) => trace[i + 1] # ConsoleError
          /\ i = Len(trace) => Running
    /\ \A i \in CallIdx({"list-sessions"}) :
          /\ trace[i].res = "fail" => allSessions = <<>>
          /\ i < Len(trace) => trace[i + 1] # ConsoleError
          /\ i = Len(trace) => pc = "promptAction"

C14_Witness ==
    /\ ~toolPresent /\ registry # {}
    /\ pc = "promptAction"
    /\ \E i \in CallIdx({"list-sessions"}) : trace[i].res = "fail"
    /\ trace[1].res = "fail"

----------------------------------------------------------------------------
(* C15 *)

\* how often id occurs in a list of session names
Occurrences(list, id) == Cardinality({i \in DOMAIN list : list[i] = id})

\* no other process has acted since sessionExists / createSession returned
QuietSinceExists == queriedAt.exists = envSteps
QuietSinceCreate == queriedAt.create = envSteps

----------------------------------------------------------------------------
(* C16 *)

\* the path that pwd printed and the branch that git printed, without the
\* line end
PathOf(stdout) == SubSeq(stdout, 1, Len(stdout) - 1)
BranchAbsent(git) == ~git.ok \/ git.stdout = <<>>
BranchOf(git) == SubSeq(git.stdout, 1, Len(git.stdout) - 1)

\* seg is the last segment of path: what follows the last "/"
IsLastSegment(seg, path) ==
    /\ Len(seg) <= Len(path)
    /\ \A i \in DOMAIN seg : seg[i] # "/" /\ seg[i] = path[Len(path) - Len(seg) + i]
    /\ Len(seg) < Len(path) => path[Len(path) - Len(seg)] = "/"

FolderOf(path) ==
    LET n   == CHOOSE k \in 0..Len(path) :
                   IsLastSegment(SubSeq(path, Len(path) - k + 1, Len(path)), path)
        seg == SubSeq(path, Len(path) - n + 1, Len(path))
    IN  IF seg = <<>> THEN TMUXDEV ELSE seg

\* C16: once resolved, the identifier is non-empty and is folder when the
\* branch is absent, folder-branch otherwise, folder being the last segment
\* of the working-directory path or "tmuxdev" when that is empty; a failed
\* branch query reports no error and does not end the run.
C16_ResolveIdentifier ==
    pc # "resolve" =>
        /\ sessionName # <<>>
        /\ sessionName = (IF BranchAbsent(gitBranch)
                          THEN FolderOf(PathOf(cwd))
                          ELSE FolderOf(PathOf(cwd)) \o <<"-">> \o BranchOf(gitBranch))
        /\ pc = "hasSession" => (trace = <<>> /\ Running)

----------------------------------------------------------------------------
(* C17 *)

ActionPromptIdx == {i \in PromptIdx : trace[i].op = "action"}

----------------------------------------------------------------------------
(* C18 *)

NewOkIn(tr) ==
    {i \in DOMAIN tr : tr[i].k = "call" /\ tr[i].op \in NewOps /\ tr[i].res = "ok"}
CreateFailedIn(tr) ==
    {i \in DOMAIN tr : tr[i].k = "call" /\ tr[i].op \in CreateOps /\ tr[i].res = "fail"}
AttachIn(tr) ==
    {i \in DOMAIN tr : tr[i].k = "call" /\ tr[i].op = "attach-session"}

\* C18 (two start-mode invocations, no session of the directory at the
\* start, no third process): at most one of the two new-session calls
\* succeeds, tmux lists the identifier at most once, and an invocation whose
\* create failed is finished and has issued no attach.
C18_RaceOnCreate ==
    /\ Cardinality(NewOkIn(trace)) + Cardinality(NewOkIn(peer.trace)) <= 1
    /\ Occurrences(getAllSessions, PeerId) <= 1
    /\ CreateFailedIn(trace) # {} => (Done /\ AttachIn(trace) = {})
    /\ CreateFailedIn(peer.trace) # {} => (peer.pc = "done" /\ AttachIn(peer.trace) = {})

\* both invocations saw no session and both called new-session
C18_Witness ==
    /\ NewOkIn(trace) # {}
    /\ CreateFailedIn(peer.trace) # {}
    /\ ~exists /\ ~peer.exists /\ toolPresent
    /\ peer.pc = "done"

----------------------------------------------------------------------------
(* C19 *)

QuietBetweenQueries == queriedAt.exists = queriedAt.list

----------------------------------------------------------------------------
(* C20 *)

\* the calls of createSession that carry the development-server command
DeliveredIdx ==
    {i \in CallIdx({"new-session-cmd", "send-keys"}) : trace[i].res = "ok"}

\* C20 as stated: once createSession has failed, no session that this
\* invocation created under the identifier is in the registry; from the
\* moment it has returned normally until another process acts, the session
\* exists and the command was delivered by exactly one call.
C20_AllOrNothing ==
    /\ \A i \in CreateFailedIdx :
          NewOkIn(trace) # {} => trace[i].id \notin registry
    /\ QuietSinceCreate =>
          /\ target \in registry
          /\ Cardinality(DeliveredIdx) = 1

----------------------------------------------------------------------------
(* C21 *)

\* the (folder, branch) pair that getSessionName joins, the empty branch
\* standing for an absent one
ResolverInput(pwdStdout, git) == <<getFolderName(pwdStdout), getBranchName(git)>>

\* the working directories and branches whose identifier is the one resolved
\* by this invocation
SameIdentifier ==
    {inp \in PwdOutputs \X GitOutcomes : getSessionName(inp[1], inp[2]) = sessionName}

\* C21 as stated: once resolved, the identifier belongs to one (folder,
\* branch) pair only: every working directory and branch that resolve to it
\* have the folder and the branch of this invocation, so the session that
\* start mode finds under the identifier is never that of another project or
\* branch.
C21_ResolveInjective ==
    pc # "resolve" =>
        \A inp \in SameIdentifier :
            ResolverInput(inp[1], inp[2]) = ResolverInput(cwd, gitBranch)

====
